---- MODULE Spec2Model ----
(***************************************************************************)
(* Model of the astrbot_plugin_botweb plugin (src/main.py): the two tool   *)
(* entry points sousuo_search and sousuo_fetch, the retry loop of          *)
(* _perform_search, the priority sort, the result formatter and the page   *)
(* text extraction.                                                        *)
(*                                                                         *)
(* Representation of Python values:                                        *)
(*  - a short str (title, URL, description) is a sequence of one-character *)
(*    strings; a non-ASCII character is written by its code point, u65E0;  *)
(*  - a str built by concatenation (an f-string, a returned message) is a  *)
(*    sequence of pieces: a literal, a rendered integer, a character       *)
(*    sequence, or a run-length encoded text;                              *)
(*  - a literal of the source is a TLA+ string in which a non-ASCII        *)
(*    character is written {u63D2};                                        *)
(*  - a dict is a function from its keys; d.get(k, default) is Get;        *)
(*  - a page (HTML) is a sequence of tokens: tags, whitespace runs and     *)
(*    text runs; the extracted text is a sequence of runs [c, n].          *)
(***************************************************************************)
EXTENDS Integers, Sequences, FiniteSets, TLC

VARIABLES
    tool,            \* the entry point invoked
    DDGS,            \* module global: TRUE when `from ddgs import DDGS` succeeded
    httpx,           \* module global: TRUE when `import httpx` succeeded
    config,          \* self.config
    pc,              \* position of the invocation
    retry,           \* loop variable of _perform_search
    max_results,     \* local of _perform_search
    timeout,         \* local of _fetch_page_text
    log,             \* calls made to the collaborators, in order
    search_results,  \* sousuo_search: value returned by _perform_search
    text,            \* sousuo_fetch: value returned by _fetch_page_text
    ret,             \* value returned by the tool entry point
    exc,             \* exception that left the tool entry point
    fn_pc, fn_in, fn_sorted, fn_results, fn_arg, fn_out   \* direct calls of the pure helpers

vars == <<tool, DDGS, httpx, config, pc, retry, max_results, timeout, log,
          search_results, text, ret, exc,
          fn_pc, fn_in, fn_sorted, fn_results, fn_arg, fn_out>>

toolVars == <<tool, DDGS, httpx, config, pc, retry, max_results, timeout, log,
              search_results, text, ret, exc>>

fnVars == <<fn_pc, fn_in, fn_sorted, fn_results, fn_arg, fn_out>>

----------------------------------------------------------------------------
(* Bounds of the model *)

\* longest result list the backend returns in a tool invocation
MaxHits == 2
\* longest result list handed to the pure helpers
MaxLen == 6
\* longest page, in tokens
MaxTokens == 3

----------------------------------------------------------------------------
(* Constants of the program *)

MaxAttempts == 3
LastRetry == 2
SleepSeconds == 6
MaxShown == 5
max_desc_len == 200
max_chars == 20000
DefaultMaxResults == 10
DefaultTimeout == 20

MsgMissingDdgs == "{u63D2}{u4EF6}{u7F3A}{u5C11}{u4F9D}{u8D56} ddgs{uFF0C}{u8BF7}{u5728}{u8BE5}{u63D2}{u4EF6} requirements.txt {u4E2D}{u5B89}{u88C5}{u540E}{u91CD}{u542F}{u3002}"
MsgNoSearchResults == "{u672A}{u627E}{u5230}{u76F8}{u5173}{u641C}{u7D22}{u7ED3}{u679C}{u3002}"
MsgSearchFailed == "{u641C}{u7D22}{u5931}{u8D25}{uFF1A}"
MsgMissingHttpx == "{u63D2}{u4EF6}{u7F3A}{u5C11}{u4F9D}{u8D56} httpx{uFF0C}{u8BF7}{u5728}{u8BE5}{u63D2}{u4EF6} requirements.txt {u4E2D}{u5B89}{u88C5}{u540E}{u91CD}{u542F}{u3002}"
MsgNoText == "{u672A}{u80FD}{u4ECE}{u9875}{u9762}{u4E2D}{u63D0}{u53D6}{u5230}{u6709}{u6548}{u6587}{u672C}{u3002}"
MsgFetchFailed == "{u6293}{u53D6}{u5931}{u8D25}{uFF1A}"
MsgNoResults == "{u672A}{u627E}{u5230}{u76F8}{u5173}{u7ED3}{u679C}{u3002}"
Header == "{u641C}{u7D22}{u7ED3}{u679C}{u6458}{u8981}{uFF1A}\n\n"
DescLabel == "   {u63CF}{u8FF0}: "
LinkLabel == "   {u94FE}{u63A5}: "
FooterA == "{u5171}{u627E}{u5230} "
FooterB == " {u6761}{u7ED3}{u679C}{uFF0C}{u663E}{u793A}{u524D} "
FooterC == " {u6761}{u3002}"
NoTitle == <<"u65E0","u6807","u9898">>
NoDescription == <<"u65E0","u63CF","u8FF0">>
Ellipsis == <<".",".",".">>

priority_domains ==
    << <<"b","a","i","k","e",".","b","a","i","d","u",".","c","o","m">>,
       <<"b","a","i","k","e",".","s","o","g","o","u",".","c","o","m">>,
       <<"w","w","w",".","w","i","k","i","p","e","d","i","a",".","o","r","g">>,
       <<"w","w","w",".","z","h","i","h","u",".","c","o","m">>,
       <<"m","z","h",".","m","o","e","g","i","r","l",".","o","r","g",".","c","n">>,
       <<"w","w","w",".","3","d","m","g","a","m","e",".","c","o","m">>,
       <<"n","e","w","s",".","1","6","3",".","c","o","m">>,
       <<"w","w","w",".","g","a","m","e","r","s","k","y",".","c","o","m">>,
       <<"s","t","o","r","e",".","s","t","e","a","m","p","o","w","e","r","e","d",".","c","o","m">> >>

----------------------------------------------------------------------------
(* Python values *)

Min(a, b) == IF a < b THEN a ELSE b

\* c * n for a one-character str c
Rep(c, n) == [i \in 1..n |-> c]

\* d.get(k, default)
Get(d, k, default) == IF k \in DOMAIN d THEN d[k] ELSE default

Whitespace == {" ", "\t", "\n", "\r"}

RECURSIVE lstrip(_)
lstrip(s) == IF s # <<>> /\ s[1] \in Whitespace THEN lstrip(Tail(s)) ELSE s

RECURSIVE rstrip(_)
rstrip(s) ==
    IF s # <<>> /\ s[Len(s)] \in Whitespace THEN rstrip(SubSeq(s, 1, Len(s) - 1)) ELSE s

\* s.strip()
Strip(s) == rstrip(lstrip(s))

\* `sub in s` for two str
Contains(s, sub) ==
    \E i \in 0..(Len(s) - Len(sub)) : \A j \in 1..Len(sub) : s[i + j] = sub[j]

\* pieces of a concatenated str
Lit(s) == [lit |-> s]
Num(n) == [int |-> n]
Chars(s) == [chars |-> s]
Runs(t) == [runs |-> t]

----------------------------------------------------------------------------
(* _sort_by_priority *)

get_priority_score(result, domains) ==
    LET url == Get(result, "href", <<>>)
    IN  IF \E i \in 1..Len(domains) : Contains(url, domains[i]) THEN 0 ELSE 1

\* one step of sorted(): x goes after every element whose key is not greater
UnstableInsert(acc, x, domains) ==
    LET k == get_priority_score(x, domains)
        before == {i \in 1..Len(acc) : get_priority_score(acc[i], domains) < k}
        n == Cardinality(before)
    IN  SubSeq(acc, 1, n) \o <<x>> \o SubSeq(acc, n + 1, Len(acc))

SortedInsert(acc, x, domains) ==
    LET k == get_priority_score(x, domains)
        before == {i \in 1..Len(acc) : get_priority_score(acc[i], domains) <= k}
        n == Cardinality(before)
    IN  SubSeq(acc, 1, n) \o <<x>> \o SubSeq(acc, n + 1, Len(acc))

RECURSIVE SortedPrefix(_, _, _)
SortedPrefix(results, n, domains) ==
    IF n = 0 THEN <<>>
    ELSE SortedInsert(SortedPrefix(results, n - 1, domains), results[n], domains)

_sort_by_priority(results, domains) == SortedPrefix(results, Len(results), domains)

----------------------------------------------------------------------------
(* _perform_search, lines 114-122: the list of SearchResult dicts *)

\* enumerate(sorted_results) without its start
build_results_from_zero(sorted_results) ==
    [idx \in 1..Len(sorted_results) |->
        [rank        |-> idx - 1,
         title       |-> Get(sorted_results[idx], "title", <<>>),
         url         |-> Get(sorted_results[idx], "href", <<>>),
         description |-> Get(sorted_results[idx], "body", <<>>),
         source      |-> Get(sorted_results[idx], "source", <<>>)]]

build_results(sorted_results) ==
    [idx \in 1..Len(sorted_results) |->
        [rank        |-> idx,
         title       |-> Get(sorted_results[idx], "title", <<>>),
         url         |-> Get(sorted_results[idx], "href", <<>>),
         description |-> Get(sorted_results[idx], "body", <<>>),
         source      |-> Get(sorted_results[idx], "source", <<>>)]]

----------------------------------------------------------------------------
(* _format_search_results *)

\* a cut that starts at the limit itself
truncate_at_limit(description) ==
    IF Len(description) >= max_desc_len
    THEN SubSeq(description, 1, max_desc_len) \o Ellipsis
    ELSE description

truncate_description(description) ==
    IF Len(description) > max_desc_len
    THEN SubSeq(description, 1, max_desc_len) \o Ellipsis
    ELSE description

format_entry(result, i) ==
    LET rank == Get(result, "rank", i)
        title == Strip(Get(result, "title", NoTitle))
        url == Strip(Get(result, "url", <<>>))
        description == truncate_description(Strip(Get(result, "description", NoDescription)))
    IN  << Num(rank), Lit(". "), Chars(title), Lit("\n"),
           Lit(DescLabel), Chars(description), Lit("\n"),
           Lit(LinkLabel), Chars(url), Lit("\n\n") >>

RECURSIVE format_entries(_, _)
format_entries(shown, n) ==
    IF n = 0 THEN << Lit(Header) >>
    ELSE format_entries(shown, n - 1) \o format_entry(shown[n], n)

\* no cap on the entries
shown_count_all(results) == Len(results)

shown_count(results) == Min(Len(results), MaxShown)

_format_search_results(results) ==
    IF results = <<>> THEN << Lit(MsgNoResults) >>
    ELSE LET n == shown_count(results)
         IN  format_entries(SubSeq(results, 1, n), n)
                \o << Lit(FooterA), Num(Len(results)), Lit(FooterB), Num(n), Lit(FooterC) >>

----------------------------------------------------------------------------
(* Exceptions *)

Exc(cls, msg) == [cls |-> cls, msg |-> msg]

\* base class of each exception class the collaborators raise
PyBase ==
    [c \in {"Exception", "ValueError", "DDGSException", "TimeoutException",
            "HTTPError", "ConnectError", "HTTPStatusError"} |->
        CASE c = "Exception" -> "BaseException"
          [] c = "ValueError" -> "Exception"
          [] c = "DDGSException" -> "Exception"
          [] c = "TimeoutException" -> "DDGSException"
          [] c = "HTTPError" -> "Exception"
          [] c = "ConnectError" -> "HTTPError"
          [] c = "HTTPStatusError" -> "HTTPError"]

RECURSIVE IsSubclass(_, _)
IsSubclass(c, base) ==
    \/ c = base
    \/ c \in DOMAIN PyBase /\ IsSubclass(PyBase[c], base)

\* a handler that names one concrete class only
except_ValueError(e) == IsSubclass(e.cls, "ValueError")

\* `except Exception`
except_Exception(e) == IsSubclass(e.cls, "Exception")

----------------------------------------------------------------------------
(* int(...) and float(...) of a configuration value *)

IntVal(n) == [t |-> "int", v |-> n]
StrVal(s) == [t |-> "str", v |-> s]

Digits == {"0", "1", "2", "3", "4", "5", "6", "7", "8", "9"}

DigitValue(c) ==
    CASE c = "0" -> 0 [] c = "1" -> 1 [] c = "2" -> 2 [] c = "3" -> 3 [] c = "4" -> 4
      [] c = "5" -> 5 [] c = "6" -> 6 [] c = "7" -> 7 [] c = "8" -> 8 [] c = "9" -> 9

RECURSIVE DecimalValue(_, _)
DecimalValue(s, n) ==
    IF n = 0 THEN 0 ELSE 10 * DecimalValue(s, n - 1) + DigitValue(s[n])

\* a str of decimal digits, surrounding whitespace allowed
IsDecimal(s) == Strip(s) # <<>> /\ \A i \in 1..Len(Strip(s)) : Strip(s)[i] \in Digits

py_int(x) ==
    IF x.t = "int" THEN [ok |-> TRUE, v |-> x.v]
    ELSE IF IsDecimal(x.v) THEN [ok |-> TRUE, v |-> DecimalValue(Strip(x.v), Len(Strip(x.v)))]
    ELSE [ok |-> FALSE, e |-> Exc("ValueError", "invalid literal for int() with base 10")]

\* the float n.0 is written n
py_float(x) ==
    IF x.t = "int" THEN [ok |-> TRUE, v |-> x.v]
    ELSE IF IsDecimal(x.v) THEN [ok |-> TRUE, v |-> DecimalValue(Strip(x.v), Len(Strip(x.v)))]
    ELSE [ok |-> FALSE, e |-> Exc("ValueError", "could not convert string to float")]

----------------------------------------------------------------------------
(* _fetch_page_text, lines 181-184: the text of a page *)

Tok(t, c, n) == [t |-> t, c |-> c, n |-> n]

TagKinds == {"script_open", "script_close", "style_open", "style_close", "tag"}

Space == Tok("ws", " ", 1)

\* re.sub(r'<open[^>]*>.*?</open>', '', html, flags=re.DOTALL)
RECURSIVE remove_blocks(_, _, _)
remove_blocks(html, open, close) ==
    IF html = <<>> THEN <<>>
    ELSE LET closes == {j \in 2..Len(html) : html[j].t = close}
         IN  IF html[1].t = open /\ closes # {}
             THEN LET j == CHOOSE a \in closes : \A b \in closes : a <= b
                  IN  remove_blocks(SubSeq(html, j + 1, Len(html)), open, close)
             ELSE <<html[1]>> \o remove_blocks(Tail(html), open, close)

\* re.sub(r'<[^>]+>', ' ', html)
replace_tags(html) ==
    [i \in 1..Len(html) |-> IF html[i].t \in TagKinds THEN Space ELSE html[i]]

\* re.sub(r'\s+', ' ', text)
RECURSIVE collapse_whitespace(_, _)
collapse_whitespace(s, n) ==
    IF n = 0 THEN <<>>
    ELSE IF s[n].t # "ws" THEN collapse_whitespace(s, n - 1) \o <<s[n]>>
    ELSE IF n > 1 /\ s[n - 1].t = "ws" THEN collapse_whitespace(s, n - 1)
    ELSE collapse_whitespace(s, n - 1) \o <<Space>>

\* text.strip()
strip_text(s) ==
    LET keep == {i \in 1..Len(s) : s[i].t # "ws"}
    IN  IF keep = {} THEN <<>>
        ELSE LET lo == CHOOSE i \in keep : \A j \in keep : i <= j
                 hi == CHOOSE i \in keep : \A j \in keep : j <= i
             IN  SubSeq(s, lo, hi)

\* the str as runs [c, n]: adjacent runs of one character are one run
RECURSIVE to_runs(_, _)
to_runs(s, n) ==
    IF n = 0 THEN <<>>
    ELSE LET r == to_runs(s, n - 1)
         IN  IF r # <<>> /\ r[Len(r)].c = s[n].c
             THEN SubSeq(r, 1, Len(r) - 1) \o <<[c |-> s[n].c, n |-> r[Len(r)].n + s[n].n]>>
             ELSE r \o <<[c |-> s[n].c, n |-> s[n].n]>>

extract_text(html) ==
    LET no_script == remove_blocks(html, "script_open", "script_close")
        no_style == remove_blocks(no_script, "style_open", "style_close")
        spaced == replace_tags(no_style)
        collapsed == collapse_whitespace(spaced, Len(spaced))
        stripped == strip_text(collapsed)
    IN  to_runs(stripped, Len(stripped))

RECURSIVE text_len(_)
text_len(runs) == IF runs = <<>> THEN 0 ELSE runs[1].n + text_len(Tail(runs))

\* a slice that keeps the whole text
slice_all(runs, k) == runs

\* text[:k]
RECURSIVE slice_to(_, _)
slice_to(runs, k) ==
    IF runs = <<>> \/ k = 0 THEN <<>>
    ELSE IF runs[1].n <= k THEN <<runs[1]>> \o slice_to(Tail(runs), k - runs[1].n)
    ELSE <<[c |-> runs[1].c, n |-> k]>>

----------------------------------------------------------------------------
(* The collaborators: what the search backend and the HTTP client can do *)

UrlBaike == <<"h","t","t","p",":","/","/","b","a","i","k","e",".","b","a","i","d","u",".","c","o","m","/","a">>
UrlZhihuSub == <<"h","t","t","p",":","/","/","x","w","w","w",".","z","h","i","h","u",".","c","o","m",".","c","n">>
UrlNearMiss == <<"h","t","t","p",":","/","/","z","h","i","h","u",".","c","o","m">>

\* dicts returned by ddgs.text
Hits ==
    { [title |-> <<"A">>, href |-> UrlBaike, body |-> Rep("a", max_desc_len + 1),
       source |-> <<"s">>],
      [title |-> <<" ", "B", " ">>, body |-> <<" ", " ">> \o Rep("b", max_desc_len - 1)],
      [title |-> <<"C">>, href |-> UrlZhihuSub, body |-> Rep("c", max_desc_len) \o <<"\n">>],
      [title |-> <<"D">>, href |-> UrlNearMiss, body |-> <<"d", " ", "d">>] }

ResultLists(n) == UNION {[1..k -> Hits] : k \in 0..n}

BackendErrors ==
    { Exc("DDGSException", "No results found."),
      Exc("TimeoutException", "Request timed out") }

HttpErrors == { Exc("ConnectError", "All connection attempts failed") }

Statuses == {200, 404, 503}

Tokens ==
    { Tok("script_open", "<", 1), Tok("script_close", "<", 1),
      Tok("style_open", "<", 1), Tok("style_close", "<", 1), Tok("tag", "<", 1),
      Tok("ws", " ", 2),
      Tok("txt", "a", max_chars - 1), Tok("txt", "b", 1), Tok("txt", "a", max_chars + 1) }

Pages == UNION {[1..k -> Tokens] : k \in 0..MaxTokens}

Configs ==
    { <<>>,
      [max_results |-> IntVal(5), fetch_timeout_seconds |-> StrVal(<<"3", "0">>)],
      [max_results |-> StrVal(<<"m", "a", "n", "y">>)],
      [fetch_timeout_seconds |-> StrVal(<<"f", "a", "s", "t">>)] }

----------------------------------------------------------------------------
(* Values of ret, exc and log *)

Str(pieces) == [k |-> "str", v |-> pieces]
NoRet == [k |-> "none"]
NoExc == [cls |-> "none", msg |-> ""]

CallText(r, m, out) == [ev |-> "ddgs.text", retry |-> r, max_results |-> m, out |-> out]
CallSleep(secs) == [ev |-> "sleep", secs |-> secs]
CallGet(t, out) == [ev |-> "client.get", timeout |-> t, out |-> out]

Returned(r) == [k |-> "results", v |-> r]
Raised(e) == [k |-> "raise", e |-> e]
Response(status, html) == [k |-> "response", status |-> status, html |-> html]

----------------------------------------------------------------------------
(* State after the module is imported and Main is constructed *)

ToolInit ==
    /\ tool = "none"
    /\ pc = "idle"
    /\ retry = 0
    /\ max_results = 0
    /\ timeout = 0
    /\ log = <<>>
    /\ search_results = <<>>
    /\ text = <<>>
    /\ ret = NoRet
    /\ exc = NoExc

Init ==
    /\ DDGS \in BOOLEAN
    /\ httpx \in BOOLEAN
    /\ config \in Configs
    /\ ToolInit
    /\ fn_pc = "off"
    /\ fn_in = <<>>
    /\ fn_sorted = <<>>
    /\ fn_results = <<>>
    /\ fn_arg = <<>>
    /\ fn_out = <<>>

----------------------------------------------------------------------------
(* sousuo_search *)

\* a check that never finds the dependency missing
is_never_none(dep) == FALSE

\* `DDGS is None`, `httpx is None`: the import failed
is_none(dep) == ~dep

Return(pieces) ==
    /\ ret' = Str(pieces)
    /\ exc' = NoExc
    /\ pc' = "returned"

Propagate(e) ==
    /\ ret' = NoRet
    /\ exc' = e
    /\ pc' = "raised"

\* lines 51-53
search_except(e) ==
    IF except_Exception(e)
    THEN Return(<< Lit(MsgSearchFailed), Lit(e.msg) >>)
    ELSE Propagate(e)

\* lines 45-50, once _perform_search has returned `results`
search_finish(results) ==
    /\ search_results' = results
    /\ IF results = <<>>
       THEN Return(<< Lit(MsgNoSearchResults) >>)
       ELSE Return(_format_search_results(results))

\* lines 41-45 and 78-100: up to the first backend call
sousuo_search ==
    /\ pc = "idle"
    /\ tool' = "sousuo_search"
    /\ IF is_none(DDGS)
       THEN /\ Return(<< Lit(MsgMissingDdgs) >>)
            /\ UNCHANGED <<retry, max_results>>
       ELSE LET m == py_int(Get(config, "max_results", IntVal(DefaultMaxResults)))
            IN  IF m.ok
                THEN /\ max_results' = m.v
                     /\ retry' = 0
                     /\ pc' = "search_attempt"
                     /\ UNCHANGED <<ret, exc>>
                ELSE /\ search_except(m.e)
                     /\ UNCHANGED <<retry, max_results>>
    /\ UNCHANGED <<DDGS, httpx, config, timeout, log, search_results, text>>
    /\ UNCHANGED fnVars

\* the failed attempt without its back-off
search_retry_at_once(call) ==
    /\ log' = Append(log, call)
    /\ IF retry + 1 < MaxAttempts
       THEN /\ retry' = retry + 1
            /\ pc' = "search_attempt"
            /\ UNCHANGED <<search_results, ret, exc>>
       ELSE /\ search_finish(<<>>)
            /\ UNCHANGED retry

\* the failed attempt in a loop over range(4)
search_retry_once_more(call) ==
    IF retry < LastRetry
    THEN /\ log' = log \o << call, CallSleep(SleepSeconds) >>
         /\ pc' = "search_sleep"
         /\ UNCHANGED <<retry, search_results, ret, exc>>
    ELSE /\ log' = Append(log, call)
         /\ IF retry + 1 < MaxAttempts + 1
            THEN /\ retry' = retry + 1
                 /\ pc' = "search_attempt"
                 /\ UNCHANGED <<search_results, ret, exc>>
            ELSE /\ search_finish(<<>>)
                 /\ UNCHANGED retry

\* lines 100 and 126-135: after an attempt without results, `if retry < 2`
\* sleeps and `for retry in range(3)` decides whether another attempt follows
search_retry_or_give_up(call) ==
    IF retry < LastRetry
    THEN /\ log' = log \o << call, CallSleep(SleepSeconds) >>
         /\ pc' = "search_sleep"
         /\ UNCHANGED <<retry, search_results, ret, exc>>
    ELSE /\ log' = Append(log, call)
         /\ IF retry + 1 < MaxAttempts
            THEN /\ retry' = retry + 1
                 /\ pc' = "search_attempt"
                 /\ UNCHANGED <<search_results, ret, exc>>
            ELSE /\ search_finish(<<>>)
                 /\ UNCHANGED retry

\* lines 101-125: the backend returns at least one result
SearchAttemptResults ==
    /\ pc = "search_attempt"
    /\ \E search_hits \in ResultLists(MaxHits) \ {<<>>} :
        LET sorted_results == _sort_by_priority(search_hits, priority_domains)
            formatted_results == build_results(sorted_results)
        IN  /\ log' = Append(log, CallText(retry, max_results, Returned(search_hits)))
            /\ search_finish(formatted_results)
    /\ UNCHANGED <<tool, DDGS, httpx, config, retry, max_results, timeout, text>>
    /\ UNCHANGED fnVars

\* lines 101-111 and 126-128: the backend returns no result
SearchAttemptEmpty ==
    /\ pc = "search_attempt"
    /\ search_retry_or_give_up(CallText(retry, max_results, Returned(<<>>)))
    /\ UNCHANGED <<tool, DDGS, httpx, config, max_results, timeout, text>>
    /\ UNCHANGED fnVars

\* lines 101-109 and 129-132: the backend raises
SearchAttemptRaise ==
    /\ pc = "search_attempt"
    /\ \E e \in BackendErrors :
        IF except_Exception(e)
        THEN search_retry_or_give_up(CallText(retry, max_results, Raised(e)))
        ELSE /\ log' = Append(log, CallText(retry, max_results, Raised(e)))
             /\ search_except(e)
             /\ UNCHANGED <<retry, search_results>>
    /\ UNCHANGED <<tool, DDGS, httpx, config, max_results, timeout, text>>
    /\ UNCHANGED fnVars

\* lines 128/132 and 100: asyncio.sleep(6) is over and the loop goes on
SearchWake ==
    /\ pc = "search_sleep"
    /\ IF retry + 1 < MaxAttempts
       THEN /\ retry' = retry + 1
            /\ pc' = "search_attempt"
            /\ UNCHANGED <<search_results, ret, exc>>
       ELSE /\ search_finish(<<>>)
            /\ UNCHANGED retry
    /\ UNCHANGED <<tool, DDGS, httpx, config, max_results, timeout, log, text>>
    /\ UNCHANGED fnVars

----------------------------------------------------------------------------
(* sousuo_fetch *)

\* lines 73-75
fetch_except(e) ==
    IF except_Exception(e)
    THEN Return(<< Lit(MsgFetchFailed), Lit(e.msg) >>)
    ELSE Propagate(e)

\* lines 187-189 log and re-raise; the exception reaches lines 73-75
fetch_page_text_except(e) == fetch_except(e)

\* lines 65-68 and 172-177: up to the HTTP request
sousuo_fetch ==
    /\ pc = "idle"
    /\ tool' = "sousuo_fetch"
    /\ IF is_none(httpx)
       THEN /\ Return(<< Lit(MsgMissingHttpx) >>)
            /\ UNCHANGED timeout
       ELSE LET t == py_float(Get(config, "fetch_timeout_seconds", IntVal(DefaultTimeout)))
            IN  IF t.ok
                THEN /\ timeout' = t.v
                     /\ pc' = "fetch_get"
                     /\ UNCHANGED <<ret, exc>>
                ELSE /\ fetch_except(t.e)
                     /\ UNCHANGED timeout
    /\ UNCHANGED <<DDGS, httpx, config, retry, max_results, log, search_results, text>>
    /\ UNCHANGED fnVars

\* line 177 raises: the URL cannot be reached
FetchGetRaise ==
    /\ pc = "fetch_get"
    /\ \E e \in HttpErrors :
        /\ log' = Append(log, CallGet(timeout, Raised(e)))
        /\ fetch_page_text_except(e)
    /\ UNCHANGED <<tool, DDGS, httpx, config, retry, max_results, timeout,
                   search_results, text>>
    /\ UNCHANGED fnVars

is_success(status) == 200 <= status /\ status <= 299

\* lines 177-178 and 187-189: raise_for_status() raises on the response
FetchGetErrorStatus ==
    /\ pc = "fetch_get"
    /\ \E status \in {c \in Statuses : ~is_success(c)} :
        /\ log' = Append(log, CallGet(timeout, Response(status, <<>>)))
        /\ fetch_page_text_except(Exc("HTTPStatusError", "Client or server error"))
    /\ UNCHANGED <<tool, DDGS, httpx, config, retry, max_results, timeout,
                   search_results, text>>
    /\ UNCHANGED fnVars

\* lines 177-186 and 69-72: a successful response arrives
FetchGetResponse ==
    /\ pc = "fetch_get"
    /\ \E status \in {c \in Statuses : is_success(c)}, html \in Pages :
        /\ log' = Append(log, CallGet(timeout, Response(status, html)))
        /\ text' = extract_text(html)
        /\ IF text' = <<>>
           THEN Return(<< Lit(MsgNoText) >>)
           ELSE Return(<< Runs(slice_to(text', max_chars)) >>)
    /\ UNCHANGED <<tool, DDGS, httpx, config, retry, max_results, timeout, search_results>>
    /\ UNCHANGED fnVars

Next ==
    \/ sousuo_search
    \/ SearchAttemptResults
    \/ SearchAttemptEmpty
    \/ SearchAttemptRaise
    \/ SearchWake
    \/ sousuo_fetch
    \/ FetchGetRaise
    \/ FetchGetErrorStatus
    \/ FetchGetResponse

Spec == Init /\ [][Next]_vars

----------------------------------------------------------------------------
(* The pure helpers called directly on a result list *)

FnInit ==
    /\ DDGS = TRUE
    /\ httpx = TRUE
    /\ config = <<>>
    /\ ToolInit
    /\ fn_pc = "ready"
    /\ fn_in \in ResultLists(MaxLen)
    /\ fn_sorted = <<>>
    /\ fn_results = <<>>
    /\ fn_arg = <<>>
    /\ fn_out = <<>>

FnSort ==
    /\ fn_pc = "ready"
    /\ fn_sorted' = _sort_by_priority(fn_in, priority_domains)
    /\ fn_pc' = "sorted"
    /\ UNCHANGED <<fn_in, fn_results, fn_arg, fn_out>>
    /\ UNCHANGED toolVars

FnBuild ==
    /\ fn_pc = "sorted"
    /\ fn_results' = build_results(fn_sorted)
    /\ fn_pc' = "built"
    /\ UNCHANGED <<fn_in, fn_sorted, fn_arg, fn_out>>
    /\ UNCHANGED toolVars

\* _format_search_results on the list _perform_search built
FnFormat ==
    /\ fn_pc = "built"
    /\ fn_arg' = fn_results
    /\ fn_out' = _format_search_results(fn_results)
    /\ fn_pc' = "formatted"
    /\ UNCHANGED <<fn_in, fn_sorted, fn_results>>
    /\ UNCHANGED toolVars

\* _format_search_results on dicts that lack rank, url and description
FnFormatBare ==
    /\ fn_pc = "ready"
    /\ fn_arg' = fn_in
    /\ fn_out' = _format_search_results(fn_in)
    /\ fn_pc' = "formatted"
    /\ UNCHANGED <<fn_in, fn_sorted, fn_results>>
    /\ UNCHANGED toolVars

FnNext == FnSort \/ FnBuild \/ FnFormat \/ FnFormatBare

FnSpec == FnInit /\ [][FnNext]_vars

----------------------------------------------------------------------------
(* Properties *)

IsSearchCall(c) == c.ev = "ddgs.text"
IsSleep(c) == c.ev = "sleep"
IsGet(c) == c.ev = "client.get"

\* the backend calls of the invocation, in order
SearchCalls == SelectSeq(log, IsSearchCall)
Sleeps == SelectSeq(log, IsSleep)

HasResults(c) == c.out.k = "results" /\ c.out.v # <<>>
IsEmpty(c) == c.out.k = "results" /\ c.out.v = <<>>
HasRaised(c) == c.out.k = "raise"

SearchReturned == tool = "sousuo_search" /\ pc = "returned"
FetchReturned == tool = "sousuo_fetch" /\ pc = "returned"

\* the retry loop of _perform_search was entered
LoopEntered ==
    /\ tool = "sousuo_search"
    /\ DDGS
    /\ py_int(Get(config, "max_results", IntVal(DefaultMaxResults))).ok

\* the fields of a backend dict that a SearchResult carries
HitFields(h) ==
    [title |-> Get(h, "title", <<>>), url |-> Get(h, "href", <<>>),
     description |-> Get(h, "body", <<>>), source |-> Get(h, "source", <<>>)]

ResultFields(r) ==
    [title |-> r.title, url |-> r.url, description |-> r.description, source |-> r.source]

\* `results` holds the hits of `hits`, each as often, ranked 1..n
BuiltFrom(results, hits) ==
    /\ Len(results) = Len(hits)
    /\ \A i \in 1..Len(results) : results[i].rank = i
    /\ \A h \in Hits :
        Cardinality({i \in 1..Len(results) : ResultFields(results[i]) = HitFields(h)})
            = Cardinality({i \in 1..Len(hits) : hits[i] = h})

\* C1: every invocation of sousuo_search and sousuo_fetch ends by returning a
\* string; whatever the backend or the HTTP client does (missing dependency,
\* no results, an exception on any attempt, an error status, an unreachable
\* URL, a configuration value that cannot be converted), no exception leaves
\* the tool.
C1_ToolsReturnStrings ==
    /\ exc = NoExc
    /\ pc \in {"idle", "search_attempt", "search_sleep", "fetch_get", "returned"}
    /\ pc = "returned" =>
        /\ ret.k = "str"
        /\ ret.v # <<>>
        /\ \A i \in 1..Len(ret.v) : DOMAIN ret.v[i] \in {{"lit"}, {"int"}, {"chars"}, {"runs"}}
    /\ pc # "returned" => ret = NoRet
    /\ (tool # "none" /\ pc # "returned") => ENABLED Next

\* C1 witness: the URL cannot be reached and sousuo_fetch returns its error string
C1_UnreachableUrlReported ==
    /\ FetchReturned
    /\ Len(log) = 1 /\ HasRaised(log[1])
    /\ ret = Str(<< Lit(MsgFetchFailed), Lit(log[1].out.e.msg) >>)

\* C2: in one search invocation the backend is called at most 3 times and
\* never after a call that returned at least one result; when the invocation
\* has returned, the number of calls is the index of the first call with
\* results, or 3 when there is none, and the list _perform_search returned is
\* built from the results of that call.
C2_StopsAtFirstResults ==
    /\ Len(SearchCalls) <= 3
    /\ \A i \in 1..Len(SearchCalls) : HasResults(SearchCalls[i]) => i = Len(SearchCalls)
    /\ (SearchReturned /\ LoopEntered) =>
        /\ SearchCalls # <<>>
        /\ IF HasResults(SearchCalls[Len(SearchCalls)])
           THEN BuiltFrom(search_results, SearchCalls[Len(SearchCalls)].out.v)
           ELSE Len(SearchCalls) = 3 /\ search_results = <<>>

\* C2 witness: the first call fails, the second returns two results
C2_SecondAttemptHits ==
    /\ SearchReturned
    /\ Len(SearchCalls) = 2
    /\ ~HasResults(SearchCalls[1])
    /\ HasResults(SearchCalls[2]) /\ Len(SearchCalls[2].out.v) = 2
    /\ Len(search_results) = 2

\* the number of backend calls among the first i calls of the log
Ordinal(i) == Cardinality({j \in 1..i : IsSearchCall(log[j])})

\* C3: a wait of 6 follows a backend call exactly when that call returned no
\* result or raised and it is not the third call; an invocation waits at most
\* twice, and every wait is followed by another backend call.
C3_BackoffAfterFailedAttempts ==
    /\ \A i \in 1..Len(log) : IsSearchCall(log[i]) =>
        ((i < Len(log) /\ IsSleep(log[i + 1]))
            <=> (~HasResults(log[i]) /\ Ordinal(i) # 3))
    /\ \A i \in 1..Len(log) : IsSleep(log[i]) =>
        /\ log[i].secs = 6
        /\ i > 1 /\ IsSearchCall(log[i - 1])
        /\ IF i < Len(log) THEN IsSearchCall(log[i + 1])
           ELSE pc \in {"search_sleep", "search_attempt"}
    /\ Len(Sleeps) <= 2
    /\ pc = "search_sleep" => (log # <<>> /\ IsSleep(log[Len(log)]))

\* C3 witness: three failed calls, two waits, none after the third
C3_TwoWaitsThenGiveUp ==
    /\ SearchReturned
    /\ Len(SearchCalls) = 3 /\ Len(Sleeps) = 2
    /\ IsEmpty(SearchCalls[1]) /\ HasRaised(SearchCalls[2])
    /\ IsSearchCall(log[Len(log)])

\* C4: the three failure modes of the search have pairwise different
\* messages: dependency missing, no result on any attempt, and an exception
\* on the attempts with the retries exhausted, which is reported as a search
\* failure and not as "no results".
C4_DistinctFailureMessages ==
    /\ MsgMissingDdgs # MsgNoSearchResults
    /\ MsgMissingDdgs # MsgSearchFailed
    /\ MsgNoSearchResults # MsgSearchFailed
    /\ (SearchReturned /\ Len(SearchCalls) = 3
            /\ \A i \in 1..3 : HasRaised(SearchCalls[i])) =>
        /\ ret.v[1] = Lit(MsgSearchFailed)
        /\ ret # Str(<< Lit(MsgNoSearchResults) >>)

\* the backend returned nothing twice and then the one hit h
EmptyEmptyOne(h) ==
    /\ Len(SearchCalls) >= 3
    /\ IsEmpty(SearchCalls[1])
    /\ IsEmpty(SearchCalls[2])
    /\ SearchCalls[3].out = Returned(<<h>>)

\* C5 as stated: the backend returns no result on its first and second call
\* and one result on the next; the search returns that result without a third
\* attempt.
C5_NoThirdAttempt ==
    \A h \in Hits : (SearchReturned /\ EmptyEmptyOne(h)) =>
        /\ Len(search_results) = 1
        /\ ResultFields(search_results[1]) = HitFields(h)
        /\ Len(SearchCalls) < 3

\* C5 amended: the backend returns no result on its first and second call
\* and one result on the next; the search returns that result from its third
\* attempt, after two waits and without a fourth attempt.
C5_ThirdAttemptReturns ==
    \A h \in Hits : (SearchReturned /\ EmptyEmptyOne(h)) =>
        /\ Len(search_results) = 1
        /\ ResultFields(search_results[1]) = HitFields(h)
        /\ search_results[1].rank = 1
        /\ Len(SearchCalls) = 3
        /\ Len(Sleeps) = 2
        /\ ret = Str(_format_search_results(search_results))

\* C5 witness: nothing, nothing, one result
C5_EmptyEmptyOneReturned ==
    /\ SearchReturned
    /\ \E h \in Hits : EmptyEmptyOne(h)
    /\ Len(search_results) = 1

\* the URL of the dict holds one of the priority domains
IsPriority(h) ==
    \E d \in {priority_domains[i] : i \in 1..Len(priority_domains)} :
        Contains(Get(h, "href", <<>>), d)
IsOrdinary(h) == ~IsPriority(h)

\* C6: _sort_by_priority returns a permutation of its input in which every
\* result whose URL contains a priority domain comes before every result
\* whose URL contains none, and each of the two groups keeps its order.
C6_SortIsStablePartition ==
    fn_pc \in {"sorted", "built"} =>
        fn_sorted = SelectSeq(fn_in, IsPriority) \o SelectSeq(fn_in, IsOrdinary)

\* C6 witness: an input with two different results in each group, an ordinary
\* one first and a priority one last, has been sorted
C6_MixedInputSorted ==
    /\ fn_pc = "sorted"
    /\ Len(fn_in) >= 4
    /\ IsOrdinary(fn_in[1]) /\ IsPriority(fn_in[Len(fn_in)])
    /\ Cardinality({fn_in[i] : i \in {j \in 1..Len(fn_in) : IsPriority(fn_in[j])}}) >= 2
    /\ Cardinality({fn_in[i] : i \in {j \in 1..Len(fn_in) : IsOrdinary(fn_in[j])}}) >= 2
    /\ fn_sorted # fn_in

\* the pieces of entry i of a formatted text: ten pieces after the header
EntryPiece(out, i, k) == out[1 + 10 * (i - 1) + k]
EntryCount(out) == Cardinality({i \in 1..Len(out) : out[i] = Lit(DescLabel)})

\* C7: for a non-empty result list _format_search_results emits exactly
\* min(len(results), 5) entries, never more than 5, taken from the front of
\* the list in order, and the footer gives len(results) and the number shown.
C7_AtMostFiveEntries ==
    (fn_pc = "formatted" /\ fn_arg # <<>>) =>
        LET n == Len(fn_arg)
            k == IF n < 5 THEN n ELSE 5
        IN  /\ EntryCount(fn_out) = k
            /\ EntryCount(fn_out) <= 5
            /\ Len(fn_out) = 1 + 10 * k + 5
            /\ fn_out[1] = Lit(Header)
            /\ \A i \in 1..k :
                /\ EntryPiece(fn_out, i, 1) = Num(Get(fn_arg[i], "rank", i))
                /\ EntryPiece(fn_out, i, 3) = Chars(Strip(Get(fn_arg[i], "title", NoTitle)))
                /\ EntryPiece(fn_out, i, 5) = Lit(DescLabel)
                /\ EntryPiece(fn_out, i, 9) = Chars(Strip(Get(fn_arg[i], "url", <<>>)))
            /\ SubSeq(fn_out, Len(fn_out) - 4, Len(fn_out))
                = << Lit(FooterA), Num(n), Lit(FooterB), Num(k), Lit(FooterC) >>

\* C7 witness: a list of more than five results has been formatted
C7_LongListFormatted ==
    /\ fn_pc = "formatted"
    /\ Len(fn_arg) > 5
    /\ EntryCount(fn_out) = 5

\* the description of a result dict, and the description shown for entry i
Description(r) == Get(r, "description", NoDescription)
ShownDescription(out, i) == EntryPiece(out, i, 6).chars

\* C8 as stated: a description longer than 200 characters is shown as its
\* first 200 characters followed by "...", and a description of 200
\* characters or fewer is shown unchanged.
C8_RawDescriptionCut ==
    (fn_pc = "formatted" /\ fn_arg # <<>>) =>
        \A i \in 1..EntryCount(fn_out) :
            LET d == Description(fn_arg[i])
            IN  ShownDescription(fn_out, i) =
                    IF Len(d) > 200 THEN SubSeq(d, 1, 200) \o <<".", ".", ".">> ELSE d

\* C8 amended: the description is stripped of leading and trailing
\* whitespace first; a stripped description longer than 200 characters is
\* shown as its first 200 characters followed by "...", and a stripped
\* description of 200 characters or fewer is shown as it is.
C8_StrippedDescriptionCut ==
    (fn_pc = "formatted" /\ fn_arg # <<>>) =>
        \A i \in 1..EntryCount(fn_out) :
            LET d == Strip(Description(fn_arg[i]))
                shown == ShownDescription(fn_out, i)
            IN  /\ shown = IF Len(d) > 200 THEN SubSeq(d, 1, 200) \o <<".", ".", ".">> ELSE d
                /\ Len(shown) <= 203
                /\ Len(shown) > 200 => SubSeq(shown, 201, 203) = <<".", ".", ".">>

\* C8 witness: one description is cut, and one of more than 200 characters
\* is 200 characters or fewer once stripped and is shown without "..."
C8_CutAndUncut ==
    /\ fn_pc = "formatted"
    /\ \E i \in 1..EntryCount(fn_out) :
        /\ Len(Description(fn_arg[i])) > 200
        /\ Len(ShownDescription(fn_out, i)) = 203
    /\ \E i \in 1..EntryCount(fn_out) :
        /\ Len(Description(fn_arg[i])) > 200
        /\ Len(ShownDescription(fn_out, i)) <= 200

\* p is a prefix of the text s, both as runs
IsPrefix(p, s) ==
    \/ p = <<>>
    \/ /\ Len(p) <= Len(s)
       /\ \A i \in 1..(Len(p) - 1) : p[i] = s[i]
       /\ p[Len(p)].c = s[Len(p)].c
       /\ p[Len(p)].n <= s[Len(p)].n
       /\ p[Len(p)].n > 0

\* sousuo_fetch returned after a successful response
FetchSucceeded ==
    /\ FetchReturned
    /\ Len(log) = 1
    /\ log[1].out.k = "response"
    /\ log[1].out.status = 200

\* C9: the text a successful sousuo_fetch returns is a prefix of the
\* extracted page text, at most 20,000 characters long and the whole text
\* when that is no longer than 20,000; an empty extracted text gives the
\* placeholder message and not an empty string.
C9_FetchTextTruncated ==
    FetchSucceeded =>
        IF text = <<>>
        THEN ret = Str(<< Lit(MsgNoText) >>)
        ELSE /\ Len(ret.v) = 1
             /\ DOMAIN ret.v[1] = {"runs"}
             /\ IsPrefix(ret.v[1].runs, text)
             /\ text_len(ret.v[1].runs) <= 20000
             /\ text_len(ret.v[1].runs) = Min(text_len(text), 20000)
             /\ text_len(text) <= 20000 => ret.v[1].runs = text

\* C9 witness: a page text of more than 20,000 characters was cut to 20,000
C9_LongPageCut ==
    /\ FetchSucceeded
    /\ text_len(text) > 20000
    /\ text_len(ret.v[1].runs) = 20000

\* C10: without the search dependency sousuo_search returns the
\* missing-dependency message and has made no backend call and no wait;
\* without the HTTP dependency sousuo_fetch returns its missing-dependency
\* message and has sent no HTTP request.
C10_NoUseOfMissingDependency ==
    /\ ~DDGS => \A i \in 1..Len(log) : ~IsSearchCall(log[i]) /\ ~IsSleep(log[i])
    /\ ~httpx => \A i \in 1..Len(log) : ~IsGet(log[i])
    /\ (~DDGS /\ tool = "sousuo_search") =>
        /\ pc = "returned"
        /\ ret = Str(<< Lit(MsgMissingDdgs) >>)
        /\ log = <<>>
    /\ (~httpx /\ tool = "sousuo_fetch") =>
        /\ pc = "returned"
        /\ ret = Str(<< Lit(MsgMissingHttpx) >>)
        /\ log = <<>>

\* C10 witness: sousuo_search was invoked without its dependency
C10_SearchWithoutDdgs ==
    /\ ~DDGS
    /\ SearchReturned
    /\ log = <<>>

====
